---- MODULE Spec2Model ----
(***************************************************************************)
(* Model of receiptprocessor.py: the keyword categorizer, the regular-     *)
(* expression field extractor, the warranty-expiry filter, the per-file    *)
(* pipeline and the run coordinator (main).                                *)
(*                                                                         *)
(* Python strings are sequences of one-character strings, so that          *)
(* substring tests, lower(), endswith(), the regular expressions and       *)
(* strptime are computed character by character.                           *)
(***************************************************************************)
EXTENDS Integers, Sequences, FiniteSets, TLC

VARIABLES pc, input, idx, warranties, outcomes, dirs, artifacts, checkLog,
          alerts, call, ret

vars == <<pc, input, idx, warranties, outcomes, dirs, artifacts, checkLog,
          alerts, call, ret>>

\* the variables of a run of main, but for pc
runVars == <<input, idx, warranties, outcomes, dirs, artifacts, checkLog,
             alerts>>

(***************************************************************************)
(* Bounds of the model.                                                    *)
(***************************************************************************)
MaxFrags == 2
MaxRecords == 2
MaxItems == 2
MaxFiles == 2

\* Python's None, distinct from every string (a sequence of characters)
None == <<"None">>

(***************************************************************************)
(* Characters and strings.                                                 *)
(***************************************************************************)
UpperLetters == <<"A", "B", "C", "D", "E", "F", "G", "H", "I", "J", "K", "L", "M", "N", "O", "P", "Q", "R", "S", "T", "U", "V", "W", "X", "Y", "Z">>
LowerLetters == <<"a", "b", "c", "d", "e", "f", "g", "h", "i", "j", "k", "l", "m", "n", "o", "p", "q", "r", "s", "t", "u", "v", "w", "x", "y", "z">>
Digits == {"0", "1", "2", "3", "4", "5", "6", "7", "8", "9"}
Whitespace == {" ", "\n", "\t"}

Range(s) == {s[n] : n \in 1..Len(s)}

\* str.lower() on one character
LowerChar(c) ==
  IF c \in Range(UpperLetters)
    THEN LowerLetters[CHOOSE n \in 1..26 : UpperLetters[n] = c]
    ELSE c

\* str.lower()
Lower(s) == [n \in 1..Len(s) |-> LowerChar(s[n])]

\* s[i:j] of Python, with 0-based i (inclusive) and j (exclusive)
Slice(s, i, j) == [n \in 1..(j - i) |-> s[i + n]]

\* k occurs in t at 0-based offset i
OccursAt(k, t, i) ==
  /\ i + Len(k) <= Len(t)
  /\ \A n \in 1..Len(k) : t[i + n] = k[n]

\* the Python test  k in t
In(k, t) == \E i \in 0..(Len(t) - Len(k)) : OccursAt(k, t, i)

RECURSIVE Concat(_)
Concat(ss) == IF ss = <<>> THEN <<>> ELSE Head(ss) \o Concat(Tail(ss))

SeqsUpTo(S, n) == UNION {[1..m -> S] : m \in 0..n}

(***************************************************************************)
(* categorize_receipt                                                      *)
(***************************************************************************)
categories ==
  << [category |-> <<"r", "e", "s", "t", "a", "u", "r", "a", "n", "t">>,
      keywords |-> << <<"r", "e", "s", "t", "a", "u", "r", "a", "n", "t">>, <<"c", "a", "f", "e">>, <<"d", "i", "n", "e", "r">> >>],
     [category |-> <<"g", "r", "o", "c", "e", "r", "y">>,
      keywords |-> << <<"g", "r", "o", "c", "e", "r", "y">>, <<"s", "u", "p", "e", "r", "m", "a", "r", "k", "e", "t">>, <<"f", "o", "o", "d">>, <<"w", "a", "l", "m", "a", "r", "t">> >>],
     [category |-> <<"e", "l", "e", "c", "t", "r", "o", "n", "i", "c", "s">>,
      keywords |-> << <<"e", "l", "e", "c", "t", "r", "o", "n", "i", "c", "s">>, <<"t", "e", "c", "h", "n", "o", "l", "o", "g", "y">>, <<"g", "a", "d", "g", "e", "t">> >>],
     [category |-> <<"w", "a", "r", "r", "e", "n", "t", "y">>,
      keywords |-> << <<"w", "a", "r", "r", "e", "n", "t", "y">>, <<"W", "A", "R", "R", "E", "N", "T", "Y">>, <<"v", "a", "l", "i", "d", " ", "u", "n", "t", "i", "l">>, <<"e", "x", "p", "i", "r", "y">> >>] >>

\* any(keyword in text.lower() for keyword in keywords)
AnyKeyword(keywords, text) ==
  \E k \in 1..Len(keywords) : In(keywords[k], Lower(text))

RECURSIVE CategorizeFrom(_, _)
CategorizeFrom(text, n) ==
  IF n > Len(categories) THEN <<"o", "t", "h", "e", "r">>
  ELSE IF AnyKeyword(categories[n].keywords, text) THEN categories[n].category
  ELSE CategorizeFrom(text, n + 1)

\* mutants of categorize_receipt
RECURSIVE CategorizeLastFrom(_, _)
CategorizeLastFrom(text, n) ==
  IF n < 1 THEN <<"o", "t", "h", "e", "r">>
  ELSE IF AnyKeyword(categories[n].keywords, text) THEN categories[n].category
  ELSE CategorizeLastFrom(text, n - 1)

CategorizeReceiptLastMatch(text) == CategorizeLastFrom(text, Len(categories))

CategorizeReceipt(text) == CategorizeFrom(text, 1)

(***************************************************************************)
(* Idle values of the run's variables, for the specifications that call    *)
(* one function directly.                                                  *)
(***************************************************************************)
RunIdle ==
  /\ input = None
  /\ idx = 0
  /\ warranties = <<>>
  /\ outcomes = <<>>
  /\ dirs = {}
  /\ artifacts = {}
  /\ checkLog = <<>>
  /\ alerts = <<>>

(***************************************************************************)
(* SpecCategorize: categorize_receipt called on a text.                    *)
(***************************************************************************)
CatFragments ==
  { <<"c", "a", "f", "e">>, <<"D", "i", "n", "e", "r", " ">>, <<"S", "u", "p", "e", "r", "M", "a", "r", "k", "e", "t">>, <<"s", "e", "a", "f", "o", "o", "d">>, <<"G", "A", "D", "G", "E", "T">>,
    <<"t", "e", "c", "h", "n", "o", "l", "o", "g", "y">>, <<"W", "A", "R", "R", "E", "N", "T", "Y">>, <<"V", "a", "l", "i", "d", " ", "U", "n", "t", "i", "l">>, <<"v", "a", "l", "i", "d", "\n", "u", "n", "t", "i", "l">>,
    <<"e", "x", "p", "i", "r", "y">>, <<"w", "a", "r", "r", "a", "n", "t", "y">>, <<" ", "M", "i", "l", "k", " ", "3", ".", "5", "0">>, <<"c", "a">>, <<"f", "e">> }

CatTexts == {Concat(fs) : fs \in SeqsUpTo(CatFragments, MaxFrags)}

InitCategorize ==
  /\ RunIdle
  /\ call \in [fn : {"categorize_receipt"}, text : CatTexts]
  /\ pc = "call"
  /\ ret = None

CallCategorize ==
  /\ call.fn = "categorize_receipt"
  /\ pc = "call"
  /\ pc' = "returned"
  /\ ret' = CategorizeReceipt(call.text)
  /\ UNCHANGED <<call, runVars>>

NextCategorize == CallCategorize

SpecCategorize == InitCategorize /\ [][NextCategorize]_vars

\* C1: categorize_receipt returns exactly one label of the closed set
\* {restaurant, grocery, electronics, warranty, other} for every text.
Labels == {<<"r", "e", "s", "t", "a", "u", "r", "a", "n", "t">>, <<"g", "r", "o", "c", "e", "r", "y">>, <<"e", "l", "e", "c", "t", "r", "o", "n", "i", "c", "s">>, <<"w", "a", "r", "r", "a", "n", "t", "y">>, <<"o", "t", "h", "e", "r">>}

C1_LabelInClosedSet == pc = "returned" => ret \in Labels

\* C2: a text with keywords of two or more categories gets the category that
\* is first in the order restaurant, grocery, electronics, warranty, other,
\* keywords matching as case-insensitive substrings wherever they occur; a
\* text with no configured keyword gets other.
TableOrder == <<<<"r", "e", "s", "t", "a", "u", "r", "a", "n", "t">>, <<"g", "r", "o", "c", "e", "r", "y">>, <<"e", "l", "e", "c", "t", "r", "o", "n", "i", "c", "s">>, <<"w", "a", "r", "r", "a", "n", "t", "y">>, <<"o", "t", "h", "e", "r">>>>

HasKeywordOf(n, text) ==
  \E k \in 1..Len(categories[n].keywords) :
    In(Lower(categories[n].keywords[k]), Lower(text))

Matching(text) == {n \in 1..Len(categories) : HasKeywordOf(n, text)}

First(S) == CHOOSE n \in S : \A m \in S : n <= m

C2_FirstInTableOrder ==
  pc = "returned" =>
    /\ Cardinality(Matching(call.text)) >= 2 =>
         ret = TableOrder[First(Matching(call.text))]
    /\ Matching(call.text) = {} => ret = <<"o", "t", "h", "e", "r">>

\* a later category's keyword, in upper case, precedes an earlier category's
\* keyword in the text, and the earlier category is returned
C2_Witness ==
  /\ ret = <<"r", "e", "s", "t", "a", "u", "r", "a", "n", "t">>
  /\ call.text = <<"G", "A", "D", "G", "E", "T", "c", "a", "f", "e">>

(***************************************************************************)
(* Dates: datetime.strptime(date_str, "%m/%d/%Y").date() and date          *)
(* subtraction.                                                            *)
(***************************************************************************)
ValueError == [error |-> "ValueError"]

DigitChars == <<"0", "1", "2", "3", "4", "5", "6", "7", "8", "9">>

DigitVal(c) == (CHOOSE n \in 1..10 : DigitChars[n] = c) - 1

\* %m is the pattern  1[0-2]|0[1-9]|[1-9]  ; a match of length len after
\* 0-based offset i
MonthDirective(s, i, len) ==
  \/ /\ len = 2
     /\ i + 2 <= Len(s)
     /\ \/ s[i + 1] = "1" /\ s[i + 2] \in {"0", "1", "2"}
        \/ s[i + 1] = "0" /\ s[i + 2] \in Digits \ {"0"}
  \/ /\ len = 1
     /\ i + 1 <= Len(s)
     /\ s[i + 1] \in Digits \ {"0"}

\* %d is the pattern  3[01]|[12]\d|0[1-9]|[1-9]| [1-9]
DayDirective(s, i, len) ==
  \/ /\ len = 2
     /\ i + 2 <= Len(s)
     /\ \/ s[i + 1] = "3" /\ s[i + 2] \in {"0", "1"}
        \/ s[i + 1] \in {"1", "2"} /\ s[i + 2] \in Digits
        \/ s[i + 1] = "0" /\ s[i + 2] \in Digits \ {"0"}
        \/ s[i + 1] = " " /\ s[i + 2] \in Digits \ {"0"}
  \/ /\ len = 1
     /\ i + 1 <= Len(s)
     /\ s[i + 1] \in Digits \ {"0"}

\* %Y is the pattern  \d\d\d\d
YearDirective(s, i) ==
  /\ i + 4 <= Len(s)
  /\ \A n \in 1..4 : s[i + n] \in Digits

\* the field lengths <<month, day>> under which the whole string matches
\* %m/%d/%Y with no unconverted data left
FormatMatches(s) ==
  {f \in {1, 2} \X {1, 2} :
     /\ MonthDirective(s, 0, f[1])
     /\ f[1] + 1 <= Len(s) /\ s[f[1] + 1] = "/"
     /\ DayDirective(s, f[1] + 1, f[2])
     /\ f[1] + f[2] + 2 <= Len(s) /\ s[f[1] + f[2] + 2] = "/"
     /\ YearDirective(s, f[1] + f[2] + 2)
     /\ Len(s) = f[1] + f[2] + 6}

RECURSIVE ToInt(_)
ToInt(ds) ==
  IF ds = <<>> THEN 0
  ELSE 10 * ToInt(SubSeq(ds, 1, Len(ds) - 1))
       + (IF ds[Len(ds)] = " " THEN 0 ELSE DigitVal(ds[Len(ds)]))

IsLeap(y) == y % 4 = 0 /\ (y % 100 # 0 \/ y % 400 = 0)

DaysInMonth(y, m) ==
  IF m = 2 THEN (IF IsLeap(y) THEN 29 ELSE 28)
  ELSE IF m \in {4, 6, 9, 11} THEN 30 ELSE 31

\* the date constructor raises ValueError outside MINYEAR..MAXYEAR and for a
\* day the month does not have
ValidDate(y, m, d) ==
  /\ y >= 1 /\ y <= 9999
  /\ m >= 1 /\ m <= 12
  /\ d >= 1 /\ d <= DaysInMonth(y, m)

StrpTime(s) ==
  IF FormatMatches(s) = {} THEN ValueError
  ELSE LET f == CHOOSE g \in FormatMatches(s) : TRUE
           m == ToInt(Slice(s, 0, f[1]))
           d == ToInt(Slice(s, f[1] + 1, f[1] + 1 + f[2]))
           y == ToInt(Slice(s, f[1] + f[2] + 2, f[1] + f[2] + 6))
       IN IF ValidDate(y, m, d)
            THEN [year |-> y, month |-> m, day |-> d]
            ELSE ValueError

RECURSIVE DaysBeforeMonth(_, _)
DaysBeforeMonth(y, m) ==
  IF m = 1 THEN 0 ELSE DaysBeforeMonth(y, m - 1) + DaysInMonth(y, m - 1)

\* date.toordinal()
ToOrdinal(dt) ==
  LET y == dt.year - 1
  IN y * 365 + (y \div 4) - (y \div 100) + (y \div 400)
     + DaysBeforeMonth(dt.year, dt.month) + dt.day

\* (a - b).days
DaysBetween(a, b) == ToOrdinal(a) - ToOrdinal(b)

(***************************************************************************)
(* check_expiring_warranties; today is the reading of datetime.now().      *)
(***************************************************************************)
DefaultDaysThreshold == 7

RECURSIVE CheckExpiringFrom(_, _, _, _, _)
CheckExpiringFrom(ws, n, days_threshold, today, expiring_soon) ==
  IF n > Len(ws) THEN [expiring_soon |-> expiring_soon, raised |-> FALSE]
  ELSE LET item == ws[n][1]
           date_str == ws[n][2]
           path == ws[n][3]
           date == StrpTime(date_str)
       IN IF date = ValueError
            THEN CheckExpiringFrom(ws, n + 1, days_threshold, today, expiring_soon)
          ELSE IF DaysBetween(date, today) <= days_threshold
            THEN CheckExpiringFrom(ws, n + 1, days_threshold, today,
                                   Append(expiring_soon, <<item, date, path>>))
          ELSE CheckExpiringFrom(ws, n + 1, days_threshold, today, expiring_soon)

\* mutant: the comparison is strict
RECURSIVE CheckExpiringStrictFrom(_, _, _, _, _)
CheckExpiringStrictFrom(ws, n, days_threshold, today, expiring_soon) ==
  IF n > Len(ws) THEN [expiring_soon |-> expiring_soon, raised |-> FALSE]
  ELSE LET date == StrpTime(ws[n][2])
       IN IF date = ValueError
            THEN CheckExpiringStrictFrom(ws, n + 1, days_threshold, today, expiring_soon)
          ELSE IF DaysBetween(date, today) < days_threshold
            THEN CheckExpiringStrictFrom(ws, n + 1, days_threshold, today,
                                         Append(expiring_soon, <<ws[n][1], date, ws[n][3]>>))
          ELSE CheckExpiringStrictFrom(ws, n + 1, days_threshold, today, expiring_soon)

CheckExpiringStrict(ws, days_threshold, today) ==
  CheckExpiringStrictFrom(ws, 1, days_threshold, today, <<>>)

\* mutant: the ValueError is not caught inside the loop
RECURSIVE CheckExpiringUncaughtFrom(_, _, _, _, _)
CheckExpiringUncaughtFrom(ws, n, days_threshold, today, expiring_soon) ==
  IF n > Len(ws) THEN [expiring_soon |-> expiring_soon, raised |-> FALSE]
  ELSE LET date == StrpTime(ws[n][2])
       IN IF date = ValueError
            THEN [expiring_soon |-> expiring_soon, raised |-> TRUE]
          ELSE IF DaysBetween(date, today) <= days_threshold
            THEN CheckExpiringUncaughtFrom(ws, n + 1, days_threshold, today,
                                           Append(expiring_soon, <<ws[n][1], date, ws[n][3]>>))
          ELSE CheckExpiringUncaughtFrom(ws, n + 1, days_threshold, today, expiring_soon)

CheckExpiringUncaught(ws, days_threshold, today) ==
  CheckExpiringUncaughtFrom(ws, 1, days_threshold, today, <<>>)

CheckExpiringWarranties(ws, days_threshold, today) ==
  CheckExpiringFrom(ws, 1, days_threshold, today, <<>>)

(***************************************************************************)
(* SpecExpiry: check_expiring_warranties called on a list of records.      *)
(***************************************************************************)
DateStrings ==
  { <<"0", "1", "/", "1", "5", "/", "2", "0", "2", "4">>, <<"0", "2", "/", "0", "1", "/", "2", "0", "2", "4">>, <<"1", "3", "/", "4", "0", "/", "2", "0", "2", "4">>, <<"0", "1", "/", "0", "9", "/", "2", "0", "2", "4">>,
    <<"0", "1", "/", "1", "7", "/", "2", "0", "2", "4">>, <<"0", "1", "/", "1", "8", "/", "2", "0", "2", "4">>, <<"0", "2", "/", "3", "0", "/", "2", "0", "2", "4">>, <<"0", "2", "/", "2", "9", "/", "2", "0", "2", "4">>,
    <<"0", "2", "/", "2", "9", "/", "2", "0", "2", "3">>, <<"1", "/", "5", "/", "2", "0", "2", "4">>, <<"2", "0", "2", "4", "-", "0", "1", "-", "1", "5">>, <<"1", "2", "/", "3", "1", "/", "2", "0", "2", "3">>,
    <<"0", "1", "/", "1", "5", "/", "2", "4">>, <<>>, <<"0", "1", "/", " ", "5", "/", "2", "0", "2", "4">>, <<"0", "0", "/", "1", "0", "/", "2", "0", "2", "4">>, <<"0", "1", "/", "0", "0", "/", "2", "0", "2", "4">>,
    <<"0", "1", "/", "1", "5", "/", "0", "0", "0", "0">>, <<"0", "1", "/", "1", "5", "/", "2", "0", "2", "4", "5">>, <<"0", "3", "/", "0", "1", "/", "2", "0", "2", "4">> }

Todays ==
  { [year |-> 2024, month |-> 1, day |-> 10],
    [year |-> 2024, month |-> 2, day |-> 28],
    [year |-> 2023, month |-> 12, day |-> 31] }

Thresholds == {0, DefaultDaysThreshold}

\* record n of a list: its position names the item and the path
RecordsOf(dates) ==
  [n \in 1..Len(dates) |-> <<n, dates[n], <<"out", n>> >>]

InitExpiry ==
  /\ RunIdle
  /\ call \in [fn : {"check_expiring_warranties"},
               warranties : {RecordsOf(ds) : ds \in SeqsUpTo(DateStrings, MaxRecords)},
               days_threshold : Thresholds,
               today : Todays]
  /\ pc = "call"
  /\ ret = None

CallExpiry ==
  /\ call.fn = "check_expiring_warranties"
  /\ pc = "call"
  /\ pc' = "returned"
  /\ ret' = CheckExpiringWarranties(call.warranties, call.days_threshold, call.today)
  /\ UNCHANGED <<call, runVars>>

NextExpiry == CallExpiry

SpecExpiry == InitExpiry /\ [][NextExpiry]_vars

Parses(rec) == StrpTime(rec[2]) # ValueError

DueWithin(rec, threshold, today) ==
  /\ Parses(rec)
  /\ DaysBetween(StrpTime(rec[2]), today) <= threshold

NthOf(S, k) == CHOOSE n \in S : Cardinality({m \in S : m <= n}) = k

\* the subsequence of ws at the positions in S, in input order
SubsequenceAt(ws, S) == [k \in 1..Cardinality(S) |-> ws[NthOf(S, k)]]

\* C3: the result is exactly the subsequence of the records whose date
\* string parses and whose day difference expiry - today is at most the
\* threshold (negative differences included), in input order, each record
\* carrying the parsed date.
C3_ExactlyTheDueSubsequence ==
  pc = "returned" =>
    LET ws == call.warranties
        due == {n \in 1..Len(ws) : DueWithin(ws[n], call.days_threshold, call.today)}
        kept == SubsequenceAt(ws, due)
    IN ret.expiring_soon =
         [k \in 1..Len(kept) |-> <<kept[k][1], StrpTime(kept[k][2]), kept[k][3]>>]

\* an already expired record and one exactly at the threshold are both
\* returned, in input order, while a later one in between is left out
C3_Witness ==
  /\ pc = "returned"
  /\ call.today = [year |-> 2024, month |-> 1, day |-> 10]
  /\ call.days_threshold = 7
  /\ Len(call.warranties) = 2
  /\ call.warranties[1][2] = <<"0", "1", "/", "0", "9", "/", "2", "0", "2", "4">>
  /\ call.warranties[2][2] = <<"0", "1", "/", "1", "7", "/", "2", "0", "2", "4">>
  /\ Len(ret.expiring_soon) = 2
  /\ ret.expiring_soon[1] = <<1, [year |-> 2024, month |-> 1, day |-> 9], <<"out", 1>> >>
  /\ ret.expiring_soon[2][1] = 2

\* C7: a record whose date string does not parse is left out, no exception
\* reaches the caller, and the other records are treated exactly as if the
\* malformed record were not in the list.
C7_MalformedRecordOnlySkipped ==
  pc = "returned" =>
    LET ws == call.warranties
        good == {n \in 1..Len(ws) : Parses(ws[n])}
        without == SubsequenceAt(ws, good)
    IN /\ ret.raised = FALSE
       /\ \A k \in 1..Len(ret.expiring_soon) : ret.expiring_soon[k][1] \in good
       /\ ret.expiring_soon =
            CheckExpiringFrom(without, 1, call.days_threshold, call.today, <<>>).expiring_soon

\* a malformed record comes first and the due record after it is returned
C7_Witness ==
  /\ pc = "returned"
  /\ Len(call.warranties) = 2
  /\ call.warranties[1][2] = <<"1", "3", "/", "4", "0", "/", "2", "0", "2", "4">>
  /\ call.warranties[2][2] = <<"0", "1", "/", "1", "5", "/", "2", "0", "2", "4">>
  /\ call.today = [year |-> 2024, month |-> 1, day |-> 10]
  /\ ret.raised = FALSE
  /\ Len(ret.expiring_soon) = 1
  /\ ret.expiring_soon[1][1] = 2

(***************************************************************************)
(* extract_warranty_and_products                                           *)
(***************************************************************************)
\* the length of the longest run of characters of C after 0-based offset i
RunLen(s, i, C) ==
  CHOOSE n \in 0..(Len(s) - i) :
    /\ \A k \in 1..n : s[i + k] \in C
    /\ n = Len(s) - i \/ s[i + n + 1] \notin C

\* \d{2}/\d{2}/\d{4} matches at 0-based offset j
DateShapeAt(s, j) ==
  /\ j + 10 <= Len(s)
  /\ \A k \in {1, 2, 4, 5, 7, 8, 9, 10} : s[j + k] \in Digits
  /\ s[j + 3] = "/" /\ s[j + 6] = "/"

\* the literal k matches at offset i under re.IGNORECASE
OccursAtIgnoreCase(k, s, i) ==
  /\ i + Len(k) <= Len(s)
  /\ \A n \in 1..Len(k) : LowerChar(s[i + n]) = LowerChar(k[n])

\* warranty.*?(\d{2}/\d{2}/\d{4}) with re.IGNORECASE matches from offset i
\* with the group at offset j; . does not match a newline
WarrantyMatch(s, i, j) ==
  /\ j >= i + 8
  /\ DateShapeAt(s, j)
  /\ \A k \in (i + 9)..j : s[k] # "\n"

\* re.search: the leftmost start, then the shortest .*?
SearchWarrantyDate(s) ==
  LET starts == {i \in {a \in 0..Len(s) : OccursAtIgnoreCase(<<"w", "a", "r", "r", "a", "n", "t", "y">>, s, a)} :
                   \E j \in i..Len(s) : WarrantyMatch(s, i, j)}
  IN IF starts = {} THEN None
     ELSE LET i == CHOOSE a \in starts : \A b \in starts : a <= b
              js == {j \in i..Len(s) : WarrantyMatch(s, i, j)}
              j == CHOOSE a \in js : \A b \in js : a <= b
          IN Slice(s, j, j + 10)

NameClass == Range(UpperLetters) \cup Range(LowerLetters) \cup Whitespace

\* ([A-Za-z\s]+)\s+(\d+\.\d{2}) matches from offset i with the three greedy
\* repetitions taking g, w and d characters: what follows them is \.\d{2}
PriceTailAt(s, k) ==
  /\ k + 3 <= Len(s)
  /\ s[k + 1] = "."
  /\ s[k + 2] \in Digits
  /\ s[k + 3] \in Digits

ProductMatches(s, i) ==
  UNION {
    UNION {
      {<<g, w, d>> : d \in {e \in 1..RunLen(s, i + g + w, Digits) :
                              PriceTailAt(s, i + g + w + e)}}
      : w \in 1..RunLen(s, i + g, Whitespace)}
    : g \in 1..RunLen(s, i, NameClass)}

\* backtracking order: the longest name first, then the longest whitespace,
\* then the longest integer part
Preferred(a, b) ==
  \/ a[1] > b[1]
  \/ a[1] = b[1] /\ a[2] > b[2]
  \/ a[1] = b[1] /\ a[2] = b[2] /\ a[3] >= b[3]

\* re.findall: scan from the left, continue after each match
RECURSIVE FindProductsFrom(_, _)
FindProductsFrom(s, i) ==
  IF i >= Len(s) THEN <<>>
  ELSE IF ProductMatches(s, i) = {}
    THEN FindProductsFrom(s, i + 1)
  ELSE LET ms == ProductMatches(s, i)
           m == CHOOSE a \in ms : \A b \in ms : Preferred(a, b)
           stop == i + m[1] + m[2] + m[3] + 3
       IN << <<Slice(s, i, i + m[1]), Slice(s, i + m[1] + m[2], stop)>> >>
          \o FindProductsFrom(s, stop)

ExtractWarrantyAndProducts(text) ==
  [warranty_date |-> SearchWarrantyDate(text),
   products |-> FindProductsFrom(text, 0)]

(***************************************************************************)
(* SpecExtract: extract_warranty_and_products called on a text made of a   *)
(* prefix followed by name-price occurrences.                              *)
(***************************************************************************)
Prefixes ==
  { <<>>, <<"w", "a", "r", "r", "a", "n", "t", "y", " ", "e", "x", "p", "i", "r", "e", "s", " ", "0", "1", "/", "0", "1", "/", "2", "0", "9", "9", "\n">>, <<"W", "a", "r", "r", "a", "n", "t", "y", " ", "1", "3", "/", "4", "0", "/", "2", "0", "2", "4", " ">>,
    <<"W", "A", "R", "R", "A", "N", "T", "Y", "\n", "0", "5", "/", "0", "1", "/", "2", "0", "2", "5", " ">>, <<"w", "a", "r", "r", "a", "n", "t", "y", " ", "v", "a", "l", "i", "d", " ", "u", "n", "t", "i", "l", " ", "0", "5", "/", "0", "1", "/", "2", "0", "2", "5", " ", "t", "h", "a", "n", "k", "s", " ">>,
    <<"g", "u", "a", "r", "a", "n", "t", "e", "e", " ", "0", "5", "/", "0", "1", "/", "2", "0", "2", "5", " ">>, <<"0", "2", "/", "3", "0", "/", "2", "0", "2", "4", " ", "w", "a", "r", "r", "a", "n", "t", "y", " ", "0", "2", "/", "3", "0", "/", "2", "0", "2", "4", " ", "0", "1", "/", "0", "1", "/", "2", "0", "2", "5", " ">> }

ItemNames == { <<"M", "i", "l", "k">>, <<"B", "r", "e", "a", "d">>, <<"I", "c", "e", " ", "C", "r", "e", "a", "m">> }
ItemPrices == { <<"3", ".", "5", "0">>, <<"1", "2", ".", "0", "0">> }
Separators == { <<" ">>, <<"\n">> }

RECURSIVE Join(_, _)
Join(items, sep) ==
  IF items = <<>> THEN <<>>
  ELSE Head(items)[1] \o <<" ">> \o Head(items)[2]
       \o (IF Len(items) = 1 THEN <<>> ELSE sep \o Join(Tail(items), sep))

InitExtract ==
  /\ RunIdle
  /\ \E pre \in Prefixes, items \in SeqsUpTo(ItemNames \X ItemPrices, MaxItems),
        sep \in Separators :
       call = [fn |-> "extract_warranty_and_products", pre |-> pre,
               items |-> items, text |-> pre \o Join(items, sep)]
  /\ pc = "call"
  /\ ret = None

CallExtract ==
  /\ call.fn = "extract_warranty_and_products"
  /\ pc = "call"
  /\ pc' = "returned"
  /\ ret' = ExtractWarrantyAndProducts(call.text)
  /\ UNCHANGED <<call, runVars>>

NextExtract == CallExtract

SpecExtract == InitExtract /\ [][NextExtract]_vars

\* C8: for a text made of name-price occurrences separated by whitespace the
\* products are one (name, price) pair per occurrence, in order, each name
\* without leading or trailing whitespace and each price with two fraction
\* digits.
C8_OnePairPerOccurrenceTrimmed ==
  (pc = "returned" /\ call.pre = <<>>) => ret.products = call.items

ModuleGlobals ==
  {"argparse", "Exception", "ValueError", "any", "open", "print", "os", "re",
   "Path", "image_to_string", "logging", "datetime", "timedelta",
   "parse_args", "binarize_image", "extract_warranty_and_products",
   "categorize_receipt", "generate_output", "process_receipt",
   "check_expiring_warranties", "main"}

NameBound(name) == name \in ModuleGlobals

(***************************************************************************)
(* Paths                                                                   *)
(***************************************************************************)
\* str.endswith
EndsWith(s, suffix) ==
  /\ Len(suffix) <= Len(s)
  /\ OccursAt(suffix, s, Len(s) - Len(suffix))

ImageExtensions == { <<".", "j", "p", "g">>, <<".", "j", "p", "e", "g">>, <<".", "p", "n", "g">> }

\* filename.endswith(('.jpg', '.jpeg', '.png'))
IsReceiptFile(filename) == \E e \in ImageExtensions : EndsWith(filename, e)

\* os.path.join of a relative component b onto a
PathJoin(a, b) ==
  IF a = <<>> \/ a[Len(a)] = "/" THEN a \o b ELSE a \o <<"/">> \o b

\* Path(p).stem for a name without separators: the name up to its last dot,
\* when that dot is neither the first nor the last character
Stem(name) ==
  LET dots == {n \in 2..(Len(name) - 1) : name[n] = "."}
  IN IF dots = {} THEN name
     ELSE SubSeq(name, 1, (CHOOSE n \in dots : \A m \in dots : m <= n) - 1)

\* the default of --output
OutputDir == <<"o", "u", "t", "/", "t", "x", "t", "/">>

(***************************************************************************)
(* generate_output: an IOError of the write is caught and logged here.     *)
(***************************************************************************)
GenerateOutput(path, category, warranty_date, products, text, fault, files) ==
  IF fault = "write" THEN files
  ELSE {a \in files : a.path # path}
       \cup {[path |-> path, category |-> category, text |-> text,
              warranty_date |-> warranty_date, products |-> products]}

(***************************************************************************)
(* process_receipt.  file is the directory entry with what its             *)
(* collaborators will do: fault names the step that fails for it (decode,  *)
(* ocr, makedirs, write) or none, ocr is the text the engine returns.      *)
(***************************************************************************)
Failure(ds, files, raised) ==
  [raised |-> raised, category |-> None, warranty_date |-> None,
   output_path |-> None, dirs |-> ds, artifacts |-> files]

\* the body of the try block; exc says that an exception left it
ProcessReceiptTry(file, output_dir, ds, files) ==
  IF ~NameBound("Image") \/ file.fault = "decode" \/ file.fault = "ocr"
    THEN [exc |-> TRUE, dirs |-> ds, artifacts |-> files]
  ELSE LET text == file.ocr
           category == CategorizeReceipt(text)
           fields == ExtractWarrantyAndProducts(text)
           category_dir == PathJoin(output_dir, category)
           output_path == PathJoin(category_dir, Stem(file.name) \o <<".", "t", "x", "t">>)
       IN IF file.fault = "makedirs"
            THEN [exc |-> TRUE, dirs |-> ds, artifacts |-> files]
          ELSE [exc |-> FALSE, category |-> category,
                warranty_date |-> fields.warranty_date,
                output_path |-> output_path,
                dirs |-> ds \cup {category_dir},
                artifacts |-> GenerateOutput(output_path, category,
                                             fields.warranty_date, fields.products,
                                             text, file.fault, files)]

\* mutant: no except clause, the exception leaves process_receipt
ProcessReceiptUncaught(file, output_dir, ds, files) ==
  LET r == ProcessReceiptTry(file, output_dir, ds, files)
  IN IF r.exc THEN Failure(r.dirs, r.artifacts, TRUE)
     ELSE [raised |-> FALSE, category |-> r.category,
           warranty_date |-> r.warranty_date, output_path |-> r.output_path,
           dirs |-> r.dirs, artifacts |-> r.artifacts]

ProcessReceipt(file, output_dir, ds, files) ==
  LET r == ProcessReceiptTry(file, output_dir, ds, files)
  IN IF r.exc THEN Failure(r.dirs, r.artifacts, FALSE)
     ELSE [raised |-> FALSE, category |-> r.category,
           warranty_date |-> r.warranty_date, output_path |-> r.output_path,
           dirs |-> r.dirs, artifacts |-> r.artifacts]

\* the truth value of a string or None
Truthy(x) == x # None /\ x # <<>>

(***************************************************************************)
(* Spec: a run of main.  input is the input directory: absent, or the      *)
(* list os.listdir returns.                                                *)
(***************************************************************************)
FileNames == { <<"a", ".", "p", "n", "g">>, <<"b", ".", "j", "p", "g">>, <<"c", ".", "j", "p", "e", "g">>, <<"d", ".", "P", "N", "G">>, <<"n", "o", "t", "e", "s", ".", "t", "x", "t">> }

Faults == {"none", "decode", "ocr", "makedirs", "write"}

OcrTexts ==
  { <<"G", "r", "o", "c", "e", "r", "y", "\n", "M", "i", "l", "k", " ", "3", ".", "5", "0", "\n", "w", "a", "r", "r", "a", "n", "t", "y", " ", "e", "x", "p", "i", "r", "e", "s", " ", "0", "1", "/", "0", "1", "/", "2", "0", "9", "9">>,
    <<"c", "a", "f", "e", " ", "W", "a", "r", "r", "a", "n", "t", "y", " ", "1", "3", "/", "4", "0", "/", "2", "0", "2", "4">> }

Files == [name : FileNames, fault : Faults, ocr : OcrTexts]

Listings ==
  {l \in SeqsUpTo(Files, MaxFiles) :
     \A m, n \in 1..Len(l) : m # n => l[m].name # l[n].name}

Init ==
  /\ pc = "start"
  /\ input \in [absent : {TRUE}, listing : {<<>>}]
               \cup [absent : {FALSE}, listing : Listings]
  /\ idx = 0
  /\ warranties = <<>>
  /\ outcomes = <<>>
  /\ dirs = {}
  /\ artifacts = {}
  /\ checkLog = <<>>
  /\ alerts = <<>>
  /\ call = [fn |-> "main"]
  /\ ret = None

\* os.makedirs(args.output, exist_ok=True); warranties = []
MakeOutputDir ==
  /\ pc = "start"
  /\ dirs' = dirs \cup {OutputDir}
  /\ warranties' = <<>>
  /\ pc' = "listdir"
  /\ UNCHANGED <<input, idx, outcomes, artifacts, checkLog, alerts, call, ret>>

\* os.listdir(args.input): FileNotFoundError for an absent directory, which
\* nothing in main catches
ListDir ==
  /\ pc = "listdir"
  /\ IF input.absent
       THEN pc' = "crashed" /\ idx' = idx
       ELSE pc' = "loop" /\ idx' = 1
  /\ UNCHANGED <<input, warranties, outcomes, dirs, artifacts, checkLog, alerts,
                 call, ret>>

\* an entry without a recognized extension is passed over
SkipFile ==
  /\ pc = "loop"
  /\ idx <= Len(input.listing)
  /\ ~IsReceiptFile(input.listing[idx].name)
  /\ idx' = idx + 1
  /\ UNCHANGED <<pc, input, warranties, outcomes, dirs, artifacts, checkLog,
                 alerts, call, ret>>

\* one iteration of the loop over the listing for a receipt file
ProcessFile ==
  /\ pc = "loop"
  /\ idx <= Len(input.listing)
  /\ IsReceiptFile(input.listing[idx].name)
  /\ LET filename == input.listing[idx].name
         r == ProcessReceipt(input.listing[idx], OutputDir, dirs, artifacts)
     IN /\ dirs' = r.dirs
        /\ artifacts' = r.artifacts
        /\ IF r.raised
             THEN /\ pc' = "crashed"
                  /\ UNCHANGED <<idx, outcomes, warranties>>
             ELSE /\ pc' = pc
                  /\ idx' = idx + 1
                  /\ outcomes' = Append(outcomes,
                       [filename |-> filename, category |-> r.category,
                        warranty_date |-> r.warranty_date, new_path |-> r.output_path])
                  /\ warranties' =
                       IF Truthy(r.category) /\ Truthy(r.warranty_date)
                         THEN Append(warranties, <<filename, r.warranty_date, r.output_path>>)
                         ELSE warranties
  /\ UNCHANGED <<input, checkLog, alerts, call, ret>>

\* after the loop: expiring_soon = check_expiring_warranties(warranties)
CheckWarranties ==
  /\ pc = "loop"
  /\ idx > Len(input.listing)
  /\ \E today \in Todays :
       LET r == CheckExpiringWarranties(warranties, DefaultDaysThreshold, today)
       IN /\ checkLog' = Append(checkLog,
               [warranties |-> warranties, processed |-> Len(outcomes),
                alerts |-> Len(alerts), returned |-> r.expiring_soon])
          /\ ret' = r.expiring_soon
          /\ pc' = IF r.raised THEN "crashed" ELSE "alert"
  /\ UNCHANGED <<input, idx, warranties, outcomes, dirs, artifacts, alerts, call>>

\* the loop over expiring_soon: one ALERT line for each record, then the end
EmitAlerts ==
  /\ pc = "alert"
  /\ IF Len(alerts) < Len(ret)
       THEN alerts' = Append(alerts, ret[Len(alerts) + 1]) /\ pc' = pc
       ELSE alerts' = alerts /\ pc' = "done"
  /\ UNCHANGED <<input, idx, warranties, outcomes, dirs, artifacts, checkLog,
                 call, ret>>

Next ==
  \/ MakeOutputDir
  \/ ListDir
  \/ SkipFile
  \/ ProcessFile
  \/ CheckWarranties
  \/ EmitAlerts

Spec == Init /\ [][Next]_vars

(***************************************************************************)
(* Properties of a run.                                                    *)
(***************************************************************************)
Finished == pc \in {"done", "crashed"}

ReceiptPositions == {n \in 1..Len(input.listing) : IsReceiptFile(input.listing[n].name)}

Absence(o) ==
  o.category = None /\ o.warranty_date = None /\ o.new_path = None

\* the output location of a file: <outputRoot>/<category>/<stem>.txt with
\* the category inferred from its OCR text
ArtifactPath(file) ==
  PathJoin(PathJoin(OutputDir, CategorizeReceipt(file.ocr)),
           Stem(file.name) \o <<".", "t", "x", "t">>)

EntriesFor(filename) ==
  {n \in 1..Len(warranties) : warranties[n][1] = filename}

\* C4: every file with a recognized extension whose image decodes and whose
\* OCR succeeds has its artifact at <outputRoot>/<category>/<stem>.txt when
\* the run ends, and, when its text holds a warranty date, exactly one entry
\* (filename, date string, output path) in the collected warranty list.
\* Stated for the files none of whose collaborators fails, the file system
\* included.
C4_ArtifactAndWarrantyEntry ==
  pc = "done" =>
    \A n \in ReceiptPositions :
      LET file == input.listing[n]
          date == SearchWarrantyDate(file.ocr)
      IN file.fault = "none" =>
           /\ \E a \in artifacts : a.path = ArtifactPath(file)
           /\ date # None =>
                /\ Cardinality(EntriesFor(file.name)) = 1
                /\ \E k \in EntriesFor(file.name) :
                     warranties[k] = <<file.name, date, ArtifactPath(file)>>

\* C5: a failure while processing one file never aborts the run: the
\* coordinator receives an absence for the file, adds nothing to the
\* warranty list for it and goes on to process every remaining file.
C5_FailureIsolated ==
  ~input.absent =>
    /\ pc # "crashed"
    /\ Len(outcomes) <= Cardinality(ReceiptPositions)
    /\ \A k \in 1..Len(outcomes) :
         LET n == NthOf(ReceiptPositions, k)
         IN /\ outcomes[k].filename = input.listing[n].name
            /\ input.listing[n].fault # "none" =>
                 /\ Absence(outcomes[k])
                 /\ EntriesFor(outcomes[k].filename) = {}
    /\ pc \in {"alert", "done"} => Len(outcomes) = Cardinality(ReceiptPositions)

\* the first of two receipt files is an image that cannot be processed, the
\* coordinator gets an absence for it, and the run ends with the second file
\* handed to the pipeline too
C5_Witness ==
  /\ pc = "done"
  /\ Len(input.listing) = 2
  /\ ReceiptPositions = {1, 2}
  /\ input.listing[1].fault = "decode"
  /\ Len(outcomes) = 2
  /\ Absence(outcomes[1])
  /\ outcomes[2].filename = input.listing[2].name

\* C9: a run whose input directory is absent, empty or without a file of a
\* recognized extension produces no result, creates no category directory,
\* emits no alert and ends successfully.
C9_NothingToProcessEndsWell ==
  (input.absent \/ ReceiptPositions = {}) =>
    /\ pc # "crashed"
    /\ outcomes = <<>>
    /\ dirs \subseteq {OutputDir}
    /\ artifacts = {}
    /\ alerts = <<>>

\* C10: in every run check_expiring_warranties is invoked exactly once, only
\* after every input file has been processed, on the whole collected
\* warranty list; no alert is emitted before that, and exactly one alert is
\* emitted for each record it returns.
C10_OneCheckAfterAllFiles ==
  /\ Len(checkLog) <= 1
  /\ Len(checkLog) = 0 => alerts = <<>>
  /\ \A c \in 1..Len(checkLog) :
       /\ checkLog[c].processed = Cardinality(ReceiptPositions)
       /\ checkLog[c].warranties = warranties
       /\ checkLog[c].alerts = 0
  /\ Finished =>
       /\ Len(checkLog) = 1
       /\ alerts = checkLog[1].returned

====
